---- MODULE Spec2Model ----
(***************************************************************************)
(* RecursiveDevKit (orcardk.py): three markdown documents on disk          *)
(* (project-context.md, development-state.md, prompt-template.md) and the  *)
(* four CLI operations init / prompt / state / phase that read, patch and  *)
(* rewrite them with regular expressions.                                  *)
(*                                                                         *)
(* A text is a sequence of atoms.  The characters the program's regular    *)
(* expressions and string methods look at are atoms of their own: newline, *)
(* space, hyphen, colon, percent, dot, comma, slash, the heading markers   *)
(* "#" and "##", digits, and the two-character escape backslash-n.  Every  *)
(* other atom is a word: a run of text that holds none of these characters *)
(* at a place the program inspects.                                        *)
(***************************************************************************)
EXTENDS Naturals, Sequences, FiniteSets

\* ------------------------------------------------------------------ bounds

\* Operations run after the initial state of Spec (an empty directory).
MaxOps == 3
\* Operations run on each hand-edited pair of documents of SpecDocs.
MaxDocOps == 1
\* Largest number of Completed bullets / Next Tasks items of a hand-edited State document.
MaxItems == 5

\* ------------------------------------------------------------------- atoms

NL == "\n"
SP == " "
HY == "-"
CO == ":"
PC == "%"
DOT == "."
COMMA == ","
SLASH == "/"
H1 == "#"
H2 == "##"
\* backslash followed by n, as typed on a command line: an escape of a re.sub template
BSN == "\\n"

Digits == {"0", "1", "2", "3", "4", "5", "6", "7", "8", "9"}
Whitespace == {SP, NL}

\* ------------------------------------------------------ str and re helpers

\* s[a:b] of Python with 1-based inclusive places: the atoms a..b of s.
Slice(s, a, b) == IF a > b THEN <<>> ELSE SubSeq(s, a, b)

\* Whether the literal pat stands in s at place i.
MatchAt(s, pat, i) ==
    /\ i >= 1
    /\ i + Len(pat) - 1 <= Len(s)
    /\ \A k \in 1..Len(pat) : s[i + k - 1] = pat[k]

\* The first place >= from where the literal pat stands in s, 0 when there is none.
FindSub(s, pat, from) ==
    LET places == from..(Len(s) - Len(pat) + 1)
    IN IF \E i \in places : MatchAt(s, pat, i)
       THEN CHOOSE i \in places :
                MatchAt(s, pat, i) /\ \A j \in from..(i - 1) : s[j] # pat[1] \/ ~MatchAt(s, pat, j)
       ELSE 0

\* The first place >= from holding an atom of set cs, Len(s)+1 when there is none.
FindAtom(s, cs, from) ==
    IF \E i \in from..Len(s) : s[i] \in cs
    THEN CHOOSE i \in from..Len(s) : s[i] \in cs /\ \A j \in from..(i - 1) : s[j] \notin cs
    ELSE Len(s) + 1

\* The first place >= from holding an atom outside set cs, Len(s)+1 when there is none.
FindNot(s, cs, from) ==
    IF \E i \in from..Len(s) : s[i] \notin cs
    THEN CHOOSE i \in from..Len(s) : s[i] \notin cs /\ \A j \in from..(i - 1) : s[j] \in cs
    ELSE Len(s) + 1

\* The last place <= to holding an atom outside set cs, 0 when there is none.
FindLastNot(s, cs, to) ==
    IF \E i \in 1..to : s[i] \notin cs
    THEN CHOOSE i \in 1..to : s[i] \notin cs /\ \A j \in (i + 1)..to : s[j] \in cs
    ELSE 0

\* str.strip(): leading and trailing whitespace removed.
Strip(s) == Slice(s, FindNot(s, Whitespace, 1), FindLastNot(s, Whitespace, Len(s)))

\* str.split("\n"): the lines of s (one empty line for the empty text).
RECURSIVE SplitLines(_)
SplitLines(s) ==
    LET e == FindAtom(s, {NL}, 1)
    IN IF e > Len(s) THEN <<s>>
       ELSE <<Slice(s, 1, e - 1)>> \o SplitLines(Slice(s, e + 1, Len(s)))

\* line.startswith("- ")
StartsWithBullet(line) == MatchAt(line, <<HY, SP>>, 1)

\* line[2:].strip(): the text of a bullet line
BulletText(line) == Strip(Slice(line, 3, Len(line)))

\* line[2:].split(":")[0].strip(): the name of a "name: description" bullet
BulletName(line) ==
    LET rest == Slice(line, 3, Len(line))
    IN Strip(Slice(rest, 1, FindAtom(rest, {CO}, 1) - 1))

\* The lines of body.strip().split("\n") that start with "- ".
BulletLines(body) == SelectSeq(SplitLines(Strip(body)), StartsWithBullet)

MapText(lines) == [i \in 1..Len(lines) |-> BulletText(lines[i])]

MapName(lines) == [i \in 1..Len(lines) |-> BulletName(lines[i])]

\* ", ".join(items)
RECURSIVE JoinComma(_)
JoinComma(items) ==
    IF items = <<>> THEN <<>>
    ELSE IF Len(items) = 1 THEN items[1]
    ELSE items[1] \o <<COMMA, SP>> \o JoinComma(Tail(items))

\* items[-k:]
LastK(items, k) == IF Len(items) <= k THEN items ELSE Slice(items, Len(items) - k + 1, Len(items))

\* items[:k]
FirstK(items, k) == IF Len(items) <= k THEN items ELSE Slice(items, 1, k)

\* re.search(r"## <name>\n(.*?)(?=\n##|\Z)", text, re.DOTALL): [found, body].
\* The body runs lazily from after the heading line to the first "\n##", else to the end.
SectionMatch(text, name) ==
    LET at == FindSub(text, <<H2, SP, name, NL>>, 1)
        from == at + 4
        stop == FindSub(text, <<NL, H2>>, from)
    IN IF at = 0 THEN [found |-> FALSE, body |-> <<>>]
       ELSE [found |-> TRUE,
             body |-> Slice(text, from, IF stop = 0 THEN Len(text) ELSE stop - 1)]

\* The literal "- KEY: " of a keyed line.
KeyPrefix(key) == <<HY, SP, key, CO, SP>>

\* re.search(r"- KEY: (.*?)(?=\n|-|\Z)", state, re.DOTALL): [found, value] with
\* value = group(1).strip().  The lazy group stops before the first newline OR HYPHEN.
KeyMatch(text, key) ==
    LET at == FindSub(text, KeyPrefix(key), 1)
        from == at + 5
    IN IF at = 0 THEN [found |-> FALSE, value |-> <<>>]
       ELSE [found |-> TRUE,
             value |-> Strip(Slice(text, from, FindAtom(text, {NL, HY}, from) - 1))]

\* re.search(r"## Current Phase: (.*?)\nProgress: (.*?)%", context, re.DOTALL):
\* [found, phase, progress], both groups stripped.  One combined pattern: the header,
\* later a line starting "Progress: ", later a "%".
PhaseMatch(text) ==
    LET at == FindSub(text, <<H2, SP, "Current Phase", CO, SP>>, 1)
        from == at + 5
        pr == FindSub(text, <<NL, "Progress", CO, SP>>, from)
        pfrom == pr + 4
        pct == FindAtom(text, {PC}, pfrom)
    IN IF at = 0 \/ pr = 0 \/ pct > Len(text)
       THEN [found |-> FALSE, phase |-> <<>>, progress |-> <<>>]
       ELSE [found |-> TRUE,
             phase |-> Strip(Slice(text, from, pr - 1)),
             progress |-> Strip(Slice(text, pfrom, pct - 1))]

\* Expansion of a re.sub replacement template: the escape backslash-n becomes a newline.
ExpandTemplate(t) == [i \in 1..Len(t) |-> IF t[i] = BSN THEN NL ELSE t[i]]

\* re.sub(prefix + r".*?" + stop, repl, text) with no count: EVERY non-overlapping
\* match, left to right, is replaced.  "." does not cross a newline, so a match runs
\* from the prefix to the first stop atom on the same line.
RECURSIVE ReSubFrom(_, _, _, _, _)
ReSubFrom(text, prefix, stop, repl, from) ==
    LET i == FindSub(text, prefix, from)
        e == FindAtom(text, {stop, NL}, i + Len(prefix))
    IN IF i = 0 THEN Slice(text, from, Len(text))
       ELSE IF e <= Len(text) /\ text[e] = stop
       THEN Slice(text, from, i - 1) \o repl \o ReSubFrom(text, prefix, stop, repl, e + 1)
       ELSE \* no stop on this line: the search goes on after this place
            Slice(text, from, i) \o ReSubFrom(text, prefix, stop, repl, i + 1)

ReSub(text, prefix, stop, repl) == ReSubFrom(text, prefix, stop, ExpandTemplate(repl), 1)

\* re.sub(r"(## Completed\n)", "\\1" + inserted, text): after EVERY "## Completed\n".
RECURSIVE InsertAfterFrom(_, _, _, _)
InsertAfterFrom(text, pat, inserted, from) ==
    LET i == FindSub(text, pat, from)
    IN IF i = 0 THEN Slice(text, from, Len(text))
       ELSE Slice(text, from, i + Len(pat) - 1) \o inserted
            \o InsertAfterFrom(text, pat, inserted, i + Len(pat))

InsertAfter(text, pat, inserted) == InsertAfterFrom(text, pat, ExpandTemplate(inserted), 1)

\* --------------------------------------------------------------- templates

Line(text) == text \o <<NL>>
Heading(name) == <<H2, SP, name, NL>>
Bullet(text) == <<HY, SP>> \o text \o <<NL>>
\* a nested bullet of the templates: indented by `indent` spaces
Nested(indent, name, text) ==
    [i \in 1..indent |-> SP] \o <<HY, SP, name, CO, SP>> \o text \o <<NL>>
KeyedLine(key, value) == KeyPrefix(key) \o value \o <<NL>>
NumberedItem(n, text) == <<n, DOT, SP>> \o text \o <<NL>>

\* init's project-context.md
ContextTemplate(description, phases, initial_phase) ==
    <<H1, SP, "Project Context", NL, NL>>
    \o Heading("Definition") \o Line(description) \o <<NL>>
    \o <<H2, SP, "Current Phase", CO, SP, "1", SLASH>> \o phases
       \o <<SP, HY, SP>> \o initial_phase \o <<NL>>
    \o <<"Progress", CO, SP, "0", PC, SP, "complete", NL, NL>>
    \o Heading("Architecture")
    \o Bullet(<<"Core system", CO, SP, "Initial implementation pending">>)
    \o Nested(2, "Base components", <<"To be determined">>)
    \o Bullet(<<"Infrastructure", CO, SP, "Initial setup pending">>) \o <<NL>>
    \o Heading("Dependencies") \o Bullet(<<"None yet">>) \o <<NL>>
    \o Heading("Development Principles")
    \o Bullet(<<"Modularity">>) \o Bullet(<<"Testability">>)
    \o Bullet(<<"Maintainability">>) \o Bullet(<<"Clear interfaces">>)
    \o Bullet(<<"Documentation">>) \o <<NL>>
    \o Heading("Technical Requirements")
    \o Bullet(<<"Reliable operation">>) \o Bullet(<<"Good performance">>)
    \o Bullet(<<"Proper error handling">>)

\* init's development-state.md
StateTemplate ==
    <<H1, SP, "Development State", NL, NL>>
    \o Heading("High Priority")
    \o KeyedLine("CURRENT TASK", <<"Initialize project structure">>)
    \o KeyedLine("COMPLETION CRITERIA", <<"Repository structure and base files created">>)
    \o KeyedLine("WORKING FILES", <<"Initial repository setup">>)
    \o KeyedLine("INTEGRATION POINTS", <<"None yet">>) \o <<NL>>
    \o Heading("Completed") \o Bullet(<<"Framework initialization">>) \o <<NL>>
    \o Heading("Next Tasks")
    \o NumberedItem("1", <<"Define initial architecture">>)
    \o Nested(3, "Files", <<"architecture documents", COMMA, SP, "diagrams">>)
    \o Nested(3, "Integration", <<"Overall system design">>)
    \o NumberedItem("2", <<"Set up core components">>)
    \o Nested(3, "Files", <<"base implementation files">>)
    \o Nested(3, "Integration", <<"Component interfaces">>) \o <<NL>>
    \o Heading("Challenges") \o Bullet(<<"None yet">>) \o <<NL>>
    \o Heading("Decisions")
    \o Bullet(<<"Using RecursiveDevKit framework for development">>)
    \o Nested(2, "Rationale", <<"Structured approach to AI", HY, "assisted development">>)
    \o Nested(2, "Alternatives", <<"Ad", HY, "hoc prompting", COMMA, SP, "traditional development">>)

\* update_state's reset template
ResetTemplate ==
    <<H1, SP, "Development State", NL, NL>>
    \o Heading("High Priority")
    \o KeyedLine("CURRENT TASK", <<"Initialize phase">>)
    \o KeyedLine("COMPLETION CRITERIA", <<"Phase initialization complete">>)
    \o KeyedLine("WORKING FILES", <<"Initial phase files">>)
    \o KeyedLine("INTEGRATION POINTS", <<"None yet">>) \o <<NL>>
    \o Heading("Completed") \o Bullet(<<"Previous phase completion">>) \o <<NL>>
    \o Heading("Next Tasks")
    \o NumberedItem("1", <<"First task in new phase">>)
    \o Nested(3, "Files", <<"To be determined">>)
    \o Nested(3, "Integration", <<"To be determined">>) \o <<NL>>
    \o Heading("Challenges") \o Bullet(<<"None yet">>) \o <<NL>>
    \o Heading("Decisions")
    \o Bullet(<<"Phase transition">>)
    \o Nested(2, "Rationale", <<"Previous phase completed">>)
    \o Nested(2, "Alternatives", <<"Continue previous phase">>)

\* The fixed tail of both prompt templates, from "## Implementation Requirements" on.
PromptTail ==
    <<NL>> \o Heading("Implementation Requirements")
    \o <<"1. The implementation should follow ... 5. Be testable and maintainable", NL, NL,
         "Please provide: ... Integration test approach if applicable", NL>>

\* The prompt as rendered from its fields (f is a record of texts).
PromptBody(intro, f) ==
    Line(intro) \o <<NL>>
    \o Heading("Current Focus")
    \o Bullet(<<"Task", CO, SP>> \o f.task)
    \o Bullet(<<"Files", CO, SP>> \o f.files)
    \o Bullet(<<"Integration points", CO, SP>> \o f.integration)
    \o Bullet(<<"Completion criteria", CO, SP>> \o f.criteria) \o <<NL>>
    \o Heading("Project Context")
    \o Bullet(<<"Project", CO, SP>> \o f.project)
    \o Bullet(<<"Current phase", CO, SP>> \o f.phase)
    \o Bullet(<<"Progress", CO, SP>> \o f.progress \o <<PC, SP, "complete">>)
    \o Bullet(<<"Key architecture", CO, SP>> \o f.architecture)
    \o Bullet(<<"Development principles", CO, SP>> \o f.principles) \o <<NL>>
    \o Heading("Current State")
    \o Bullet(<<"Completed", CO, SP>> \o f.completed)
    \o Bullet(<<"Next tasks", CO, SP>> \o f.next)
    \o Bullet(<<"Challenges", CO, SP>> \o f.challenges)
    \o Bullet(<<"Recent decisions", CO, SP>> \o f.decisions)
    \o PromptTail

\* init's prompt-template.md
InitPromptTemplate(project_name, description, phases, initial_phase) ==
    PromptBody(
        <<"Continue developing", SP>> \o project_name
            \o <<SP, "focusing on the following task", CO>>,
        [task |-> <<"Initialize project structure">>,
         files |-> <<"Initial repository setup">>,
         integration |-> <<"None yet">>,
         criteria |-> <<"Repository structure and base files created">>,
         project |-> project_name \o <<SP, HY, SP>> \o description,
         phase |-> <<"1", SLASH>> \o phases \o <<SP, HY, SP>> \o initial_phase,
         progress |-> <<"0">>,
         architecture |-> <<"Initial implementation pending">>,
         principles |-> <<"Modularity", COMMA, SP, "Testability", COMMA, SP, "Maintainability">>,
         completed |-> <<"Framework initialization">>,
         next |-> <<"Define initial architecture", COMMA, SP, "Set up core components">>,
         challenges |-> <<"None yet">>,
         decisions |-> <<"Using RecursiveDevKit framework for development">>])

\* ------------------------------------------------------------------- state

\* The three files (exists, text), the last command with its arguments and how it
\* ended, and the number of operations the run may still make.
VARIABLES context_file, state_file, prompt_file, last, budget

vars == <<context_file, state_file, prompt_file, last, budget>>

Absent == [exists |-> FALSE, text |-> <<>>]
File(text) == [exists |-> TRUE, text |-> text]

\* An argument that was not given (None) and the empty string are both falsy.
None == <<>>

\* A command line: every argument of every subcommand, None / FALSE where not given.
NoArgs ==
    [project_name |-> None, description |-> None, phases |-> None, initial_phase |-> None,
     answer |-> "", focus |-> None,
     completed |-> None, next |-> None, criteria |-> None, files |-> None,
     integration |-> None, reset |-> FALSE,
     new |-> None, progress |-> None]

Call(cmd, args, result) == [cmd |-> cmd, args |-> args, result |-> result]

\* -------------------------------------------------------------------- init

\* confirm.lower(), over the answers the model types
Lower(answer) == IF answer = "Y" THEN "y" ELSE answer

AnyFileExists == context_file.exists \/ state_file.exists \/ prompt_file.exists

\* A variant of init whose canceled branch lacks its `return`: it goes on to write.
init_NoReturn(project_name, description, phases, initial_phase, answer) ==
    LET args == [NoArgs EXCEPT !.project_name = project_name, !.description = description,
                               !.phases = phases, !.initial_phase = initial_phase,
                               !.answer = answer]
    IN /\ budget > 0
       /\ budget' = budget - 1
       /\ context_file' = File(ContextTemplate(description, phases, initial_phase))
       /\ state_file' = File(StateTemplate)
       /\ prompt_file' = File(InitPromptTemplate(project_name, description,
                                                 phases, initial_phase))
       /\ last' = Call("init", args,
                       IF AnyFileExists /\ Lower(answer) # "y" THEN "canceled" ELSE "ok")

\* RecursiveDevKit.init: asks before overwriting, then writes the three templates.
init(project_name, description, phases, initial_phase, answer) ==
    LET args == [NoArgs EXCEPT !.project_name = project_name, !.description = description,
                               !.phases = phases, !.initial_phase = initial_phase,
                               !.answer = answer]
    IN /\ budget > 0
       /\ budget' = budget - 1
       /\ IF AnyFileExists /\ Lower(answer) # "y"
          THEN /\ last' = Call("init", args, "canceled")
               /\ UNCHANGED <<context_file, state_file, prompt_file>>
          ELSE /\ context_file' = File(ContextTemplate(description, phases, initial_phase))
               /\ state_file' = File(StateTemplate)
               /\ prompt_file' = File(InitPromptTemplate(project_name, description,
                                                         phases, initial_phase))
               /\ last' = Call("init", args, "ok")

\* ----------------------------------------------------------- update_prompt

\* project_info: "Project", or "Project - <definition>" when the section matches
ProjectInfo(context) ==
    LET m == SectionMatch(context, "Definition")
    IN IF m.found THEN <<"Project", SP, HY, SP>> \o Strip(m.body) ELSE <<"Project">>

\* arch_info
ArchInfo(context) ==
    LET m == SectionMatch(context, "Architecture")
    IN IF m.found THEN JoinComma(MapText(BulletLines(m.body)))
       ELSE <<"Initial architecture">>

\* principles_info
PrinciplesInfo(context) ==
    LET m == SectionMatch(context, "Development Principles")
    IN IF m.found THEN JoinComma(MapName(BulletLines(m.body)))
       ELSE <<"Modularity", COMMA, SP, "Maintainability">>

\* current_task / completion_criteria / working_files / integration_points
KeyedField(state, key, default) ==
    LET m == KeyMatch(state, key) IN IF m.found THEN m.value ELSE default

\* current_task of update_prompt: the focus when one is given
CurrentTask(state, custom_focus) ==
    IF custom_focus # None THEN custom_focus
    ELSE KeyedField(state, "CURRENT TASK", <<"implementation">>)

\* completed_tasks
CompletedTasks(state) ==
    LET m == SectionMatch(state, "Completed")
    IN IF m.found THEN MapText(BulletLines(m.body)) ELSE <<>>

\* A variant of completed_info that takes completed_tasks[:3], the first three.
CompletedInfo_First3(state) == JoinComma(FirstK(CompletedTasks(state), 3))

\* completed_info: the last three
CompletedInfo(state) == JoinComma(LastK(CompletedTasks(state), 3))

\* re.match(r"^\d+\.\s", line): digits, a dot, a whitespace; 0 when the line does not
\* start so, else the length of the prefix
NumberPrefix(line) ==
    LET nd == FindNot(line, Digits, 1) - 1
    IN IF nd >= 1 /\ nd + 2 <= Len(line) /\ line[nd + 1] = DOT
          /\ line[nd + 2] \in Whitespace
       THEN nd + 2 ELSE 0

IsNumbered(line) == NumberPrefix(line) > 0

\* re.sub(r"^\d+\.\s", "", line).strip()
NumberedText(line) == Strip(Slice(line, NumberPrefix(line) + 1, Len(line)))

\* next_tasks
NextTasks(state) ==
    LET m == SectionMatch(state, "Next Tasks")
        numbered == SelectSeq(SplitLines(Strip(m.body)), IsNumbered)
    IN IF m.found THEN [i \in 1..Len(numbered) |-> NumberedText(numbered[i])] ELSE <<>>

\* next_info: the first three
NextInfo(state) == JoinComma(FirstK(NextTasks(state), 3))

\* challenge_info
ChallengeInfo(state) ==
    LET m == SectionMatch(state, "Challenges")
        names == IF m.found /\ \A i \in 1..Len(m.body) : m.body[i] # "None yet"
                 THEN MapName(BulletLines(m.body)) ELSE <<>>
    IN IF names # <<>> THEN JoinComma(names) ELSE <<"None identified">>

\* decision_info
DecisionInfo(state) ==
    LET m == SectionMatch(state, "Decisions")
        names == IF m.found THEN MapName(BulletLines(m.body)) ELSE <<>>
    IN IF names # <<>> THEN JoinComma(LastK(names, 2)) ELSE <<"No recent decisions">>

\* phase_info: the default unless the combined phase/progress pattern matches
PhaseInfo(context) ==
    LET m == PhaseMatch(context) IN IF m.found THEN m.phase ELSE <<"Current phase">>

\* `progress` is assigned only inside `if phase_match:`; the f-string reads it always
ProgressBound(context) == PhaseMatch(context).found

\* The fields the prompt is rendered from.
PromptFields(context, state, custom_focus) ==
    [task |-> CurrentTask(state, custom_focus),
     files |-> KeyedField(state, "WORKING FILES", <<"relevant files">>),
     integration |-> KeyedField(state, "INTEGRATION POINTS", <<"related components">>),
     criteria |-> KeyedField(state, "COMPLETION CRITERIA", <<"Task complete">>),
     project |-> ProjectInfo(context),
     phase |-> PhaseInfo(context),
     progress |-> PhaseMatch(context).progress,
     architecture |-> ArchInfo(context),
     principles |-> PrinciplesInfo(context),
     completed |-> CompletedInfo(state),
     next |-> NextInfo(state),
     challenges |-> ChallengeInfo(state),
     decisions |-> DecisionInfo(state)]

RenderPrompt(context, state, custom_focus) ==
    PromptBody(<<"Continue developing the project focusing on the following task", CO>>,
               PromptFields(context, state, custom_focus))

\* A variant of update_prompt whose existence check reads `and` for `or`: with one of
\* the two documents missing it goes on and open() raises FileNotFoundError.
update_prompt_AndCheck(custom_focus) ==
    LET args == [NoArgs EXCEPT !.focus = custom_focus]
    IN /\ budget > 0
       /\ budget' = budget - 1
       /\ UNCHANGED <<context_file, state_file>>
       /\ IF ~context_file.exists /\ ~state_file.exists
          THEN /\ last' = Call("prompt", args, "missing")
               /\ UNCHANGED prompt_file
          ELSE IF ~context_file.exists \/ ~state_file.exists
                  \/ ~ProgressBound(context_file.text)
          THEN /\ last' = Call("prompt", args, "raised")
               /\ UNCHANGED prompt_file
          ELSE /\ prompt_file' = File(RenderPrompt(context_file.text, state_file.text,
                                                   custom_focus))
               /\ last' = Call("prompt", args, "ok")

\* RecursiveDevKit.update_prompt
update_prompt(custom_focus) ==
    LET args == [NoArgs EXCEPT !.focus = custom_focus]
    IN /\ budget > 0
       /\ budget' = budget - 1
       /\ UNCHANGED <<context_file, state_file>>
       /\ IF ~context_file.exists \/ ~state_file.exists
          THEN /\ last' = Call("prompt", args, "missing")
               /\ UNCHANGED prompt_file
          ELSE IF ~ProgressBound(context_file.text)
          THEN \* UnboundLocalError while the f-string is built: nothing is written
               /\ last' = Call("prompt", args, "raised")
               /\ UNCHANGED prompt_file
          ELSE /\ prompt_file' = File(RenderPrompt(context_file.text, state_file.text,
                                                   custom_focus))
               /\ last' = Call("prompt", args, "ok")

\* ------------------------------------------------------------ update_state

\* The "Update completed tasks" block: the bullet "- <current task>: <task_completed>"
\* goes in after the "## Completed" heading line.
AddCompleted(content, task_completed) ==
    LET current_task == KeyedField(content, "CURRENT TASK", <<"implementation">>)
    IN InsertAfter(content, Heading("Completed"),
                   <<HY, SP>> \o current_task \o <<CO, SP>> \o task_completed \o <<NL>>)

\* One keyed-line re.sub of the "Update current task" block.
SetKeyed(content, key, value) == ReSub(content, KeyPrefix(key), NL, KeyedLine(key, value))

\* The "Update current task" block.
SetNextTask(content, next_task, criteria, files, integration) ==
    LET c1 == SetKeyed(content, "CURRENT TASK", next_task)
        c2 == IF criteria # None THEN SetKeyed(c1, "COMPLETION CRITERIA", criteria) ELSE c1
        c3 == IF files # None THEN SetKeyed(c2, "WORKING FILES", files) ELSE c2
    IN IF integration # None THEN SetKeyed(c3, "INTEGRATION POINTS", integration) ELSE c3

\* The content update_state writes: reset first, then BOTH patches still apply.
NewStateContent(content, task_completed, next_task, criteria, files, integration, reset) ==
    LET r == IF reset THEN ResetTemplate ELSE content
        c == IF task_completed # None THEN AddCompleted(r, task_completed) ELSE r
    IN IF next_task # None THEN SetNextTask(c, next_task, criteria, files, integration)
       ELSE c

\* RecursiveDevKit.update_state
update_state(task_completed, next_task, criteria, files, integration, reset) ==
    LET args == [NoArgs EXCEPT !.completed = task_completed, !.next = next_task,
                               !.criteria = criteria, !.files = files,
                               !.integration = integration, !.reset = reset]
    IN /\ budget > 0
       /\ budget' = budget - 1
       /\ UNCHANGED <<context_file, prompt_file>>
       /\ IF ~state_file.exists
          THEN /\ last' = Call("state", args, "missing")
               /\ UNCHANGED state_file
          ELSE /\ state_file' = File(NewStateContent(state_file.text, task_completed,
                                        next_task, criteria, files, integration, reset))
               /\ last' = Call("state", args, "ok")

\* ------------------------------------------------------------ update_phase

\* The content update_phase writes.
NewContextContent(content, new_phase, progress) ==
    LET c == IF new_phase # None
             THEN ReSub(content, <<H2, SP, "Current Phase", CO, SP>>, NL,
                        <<H2, SP, "Current Phase", CO, SP>> \o new_phase \o <<NL>>)
             ELSE content
    IN IF progress # None
       THEN ReSub(c, <<"Progress", CO, SP>>, PC, <<"Progress", CO, SP>> \o progress \o <<PC>>)
       ELSE c

\* RecursiveDevKit.update_phase
update_phase(new_phase, progress) ==
    LET args == [NoArgs EXCEPT !.new = new_phase, !.progress = progress]
    IN /\ budget > 0
       /\ budget' = budget - 1
       /\ UNCHANGED <<state_file, prompt_file>>
       /\ IF ~context_file.exists
          THEN /\ last' = Call("phase", args, "missing")
               /\ UNCHANGED context_file
          ELSE /\ context_file' = File(NewContextContent(context_file.text, new_phase,
                                                         progress))
               /\ last' = Call("phase", args, "ok")

\* ------------------------------------------------------------------ inputs

\* What the model types on the command line.
ProjectNames == {<<"Orca">>}
Descriptions == {<<"A software project">>}
PhaseCounts == {<<"3">>}
InitialPhases == {<<"Initialization">>}
Answers == {"y", "Y", "n", "yes"}
Focuses == {None, <<"Refactor the parser">>}
\* --completed
CompletedArgs == {None, <<"wrote the tests">>}
\* --next: a hyphenated task, and a value that carries the escape backslash-n
NextArgs == {None, <<"Build the re", HY, "indexer">>,
             <<"Ship", BSN, HY, SP, "CURRENT TASK", CO, SP, "Rest">>}
CriteriaArgs == {None, <<"All checks green">>}
\* --files: a path with a hyphen
FilesArgs == {None, <<"src", SLASH, "my", HY, "file", DOT, "py">>}
IntegrationArgs == {None, <<"Parser and CLI">>}
NewPhaseArgs == {None, <<"2", SLASH, "3", SP, HY, SP, "Feature Development">>}
ProgressArgs == {None, <<"5", "0">>}

\* The `state` command lines tried: --criteria, --files and --integration accompany
\* a --next, one at a time or all three together.
StateCalls ==
    {a \in [completed : CompletedArgs, next : NextArgs, criteria : CriteriaArgs,
            files : FilesArgs, integration : IntegrationArgs, reset : BOOLEAN] :
        LET given == {x \in {a.criteria, a.files, a.integration} : x # None}
        IN /\ Cardinality(given) \in {0, 1, 3}
           /\ (a.next = None => given = {})}

\* main(): one subcommand per invocation
Next ==
    \/ \E n \in ProjectNames, d \in Descriptions, p \in PhaseCounts, i \in InitialPhases,
          a \in (IF AnyFileExists THEN Answers ELSE {""}) : init(n, d, p, i, a)
    \/ \E f \in Focuses : update_prompt(f)
    \/ \E a \in StateCalls :
          update_state(a.completed, a.next, a.criteria, a.files, a.integration, a.reset)
    \/ \E n \in NewPhaseArgs, g \in ProgressArgs : update_phase(n, g)

\* An empty project directory.
Init ==
    /\ context_file = Absent
    /\ state_file = Absent
    /\ prompt_file = Absent
    /\ last = Call("none", NoArgs, "none")
    /\ budget = MaxOps

Spec == Init /\ [][Next]_vars

\* ---------------------------------------------------- hand-edited documents

\* The documents are plain files the user also edits by hand.  SpecDocs starts the
\* operations from the templates with one edit made: a section or keyed line removed,
\* the Completed / Next Tasks lists rewritten, hyphenated values typed in, an older
\* block left behind further down, or a file deleted.

\* The place of the heading "## <name>" and the place of the newline that ends the
\* section (the blank line before the next heading, or the end of the text).
HeadingAt(text, name) == FindSub(text, <<H2, SP, name>>, 1)
SectionStop(text, name) ==
    LET stop == FindSub(text, <<NL, H2>>, HeadingAt(text, name))
    IN IF stop = 0 THEN Len(text) ELSE stop

RemoveSection(text, name) ==
    Slice(text, 1, HeadingAt(text, name) - 1)
    \o Slice(text, SectionStop(text, name) + 1, Len(text))

\* The section's body replaced by the given lines.
WithSectionBody(text, name, body) ==
    Slice(text, 1, FindAtom(text, {NL}, HeadingAt(text, name)))
    \o body \o Slice(text, SectionStop(text, name), Len(text))

\* The first line holding the literal `prefix` cut from that literal to its newline.
RemoveLine(text, prefix) ==
    LET at == FindSub(text, prefix, 1)
    IN Slice(text, 1, at - 1) \o Slice(text, FindAtom(text, {NL}, at) + 1, Len(text))

\* The first keyed line's value retyped.
RetypeKeyed(text, key, value) ==
    LET at == FindSub(text, KeyPrefix(key), 1)
    IN Slice(text, 1, at + 4) \o value \o Slice(text, FindAtom(text, {NL}, at), Len(text))

DigitOf(k) == <<"1", "2", "3", "4", "5", "6", "7", "8", "9">>[k]

RECURSIVE CompletedBullets(_)
CompletedBullets(n) ==
    IF n = 0 THEN <<>>
    ELSE CompletedBullets(n - 1) \o Bullet(<<"Finished step", SP, DigitOf(n)>>)

RECURSIVE NumberedItems(_)
NumberedItems(m) ==
    IF m = 0 THEN <<>>
    ELSE NumberedItems(m - 1)
         \o NumberedItem(DigitOf(m), <<"Planned step", SP, DigitOf(m)>>)
         \o Nested(3, "Files", <<"module", SP, DigitOf(m)>>)
         \o Nested(3, "Integration", <<"component", SP, DigitOf(m)>>)

\* n Completed bullets and m Next Tasks items, each item with its nested lines.
StateWithLists(n, m) ==
    WithSectionBody(WithSectionBody(StateTemplate, "Completed", CompletedBullets(n)),
                    "Next Tasks", NumberedItems(m))

StateKeys == {"CURRENT TASK", "COMPLETION CRITERIA", "WORKING FILES", "INTEGRATION POINTS"}
StateSections == {"Completed", "Next Tasks", "Challenges", "Decisions"}
ContextSections == {"Definition", "Current Phase", "Architecture", "Dependencies",
                    "Development Principles", "Technical Requirements"}

\* Keyed values with hyphens in them.
HyphenatedState ==
    RetypeKeyed(RetypeKeyed(RetypeKeyed(RetypeKeyed(StateTemplate,
        "CURRENT TASK", <<"Wire the re", HY, "indexer">>),
        "COMPLETION CRITERIA", <<"End", HY, "to", HY, "end run passes">>),
        "WORKING FILES", <<"src", SLASH, "my", HY, "file", DOT, "py">>),
        "INTEGRATION POINTS", <<"CLI front", HY, "end">>)

\* An earlier High Priority block kept at the end of the document.
StateWithOldBlock ==
    StateTemplate \o <<NL>> \o Heading("Previous Priority")
    \o KeyedLine("CURRENT TASK", <<"Old task">>)
    \o KeyedLine("COMPLETION CRITERIA", <<"Old criteria">>)
    \o KeyedLine("WORKING FILES", <<"Old files">>)
    \o KeyedLine("INTEGRATION POINTS", <<"Old integration">>)

\* Real challenges in place of "None yet".
StateWithChallenges ==
    WithSectionBody(StateTemplate, "Challenges",
        Bullet(<<"Flaky tests", CO, SP, "timing">>) \o Bullet(<<"Slow build">>))

BaseContext == ContextTemplate(<<"A software project">>, <<"3">>, <<"Initialization">>)

\* The phase of last time kept at the end of the document.
ContextWithOldPhase ==
    BaseContext \o <<NL, H2, SP, "Current Phase", CO, SP, "0", SLASH, "3", SP, HY, SP,
                     "Planning", NL, "Progress", CO, SP, "1", "0", "0", PC, SP, "complete", NL>>

EditedStates ==
    {StateWithLists(n, m) : n \in 0..MaxItems, m \in 0..MaxItems}
    \cup {RemoveLine(StateTemplate, KeyPrefix(k)) : k \in StateKeys}
    \cup {RemoveSection(StateTemplate, x) : x \in StateSections}
    \cup {HyphenatedState, StateWithOldBlock, StateWithChallenges}

EditedContexts ==
    {RemoveSection(BaseContext, x) : x \in ContextSections}
    \cup {RemoveLine(BaseContext, <<"Progress", CO, SP>>), ContextWithOldPhase}

BasePrompt ==
    InitPromptTemplate(<<"Orca">>, <<"A software project">>, <<"3">>, <<"Initialization">>)

\* One document edited, or one or more files deleted.
InitDocs ==
    /\ \/ /\ context_file = File(BaseContext)
          /\ state_file \in {File(t) : t \in EditedStates}
          /\ prompt_file = File(BasePrompt)
       \/ /\ context_file \in {File(t) : t \in EditedContexts}
          /\ state_file = File(StateTemplate)
          /\ prompt_file = File(BasePrompt)
       \/ /\ context_file \in {Absent, File(BaseContext)}
          /\ state_file \in {Absent, File(StateTemplate)}
          /\ prompt_file \in {Absent, File(BasePrompt)}
          /\ ~(context_file.exists /\ state_file.exists /\ prompt_file.exists)
    /\ last = Call("none", NoArgs, "none")
    /\ budget = MaxDocOps

SpecDocs == InitDocs /\ [][Next]_vars

\* ------------------------------------------------ the documents, line by line

\* What the claims say of a document is said of its lines, sections and keyed lines;
\* these read a text that way, without the program's regular expressions.

StartsWith(line, prefix) == Len(line) >= Len(prefix) /\ SubSeq(line, 1, Len(prefix)) = prefix

\* Whether the literal stands somewhere in the line.
Holds(line, literal) ==
    \E i \in 1..(Len(line) - Len(literal) + 1) : SubSeq(line, i, i + Len(literal) - 1) = literal

\* Leading and trailing blanks dropped.
RECURSIVE Trim(_)
Trim(line) ==
    IF line = <<>> THEN line
    ELSE IF Head(line) \in {SP, NL} THEN Trim(Tail(line))
    ELSE IF line[Len(line)] \in {SP, NL} THEN Trim(SubSeq(line, 1, Len(line) - 1))
    ELSE line

\* The lines of the section headed "## <name>": from after the first such heading line
\* to before the next line that starts with "##".
LinesOfSection(text, name) ==
    LET lines == SplitLines(text)
        heads == {i \in 1..Len(lines) : lines[i] = <<H2, SP, name>>}
        h == CHOOSE i \in heads : \A j \in heads : i <= j
        nexts == {i \in (h + 1)..Len(lines) : StartsWith(lines[i], <<H2>>)}
        e == IF nexts = {} THEN Len(lines) + 1 ELSE CHOOSE i \in nexts : \A j \in nexts : i <= j
    IN IF heads = {} THEN <<>> ELSE SubSeq(lines, h + 1, e - 1)

HasSection(text, name) == \E i \in 1..Len(SplitLines(text)) : SplitLines(text)[i] = <<H2, SP, name>>

\* The top-level bullets of a section, in document order, without their "- ".
TopBullets(text, name) ==
    LET bl == SelectSeq(LinesOfSection(text, name), LAMBDA l : StartsWith(l, <<HY, SP>>))
    IN [i \in 1..Len(bl) |-> Trim(SubSeq(bl[i], 3, Len(bl[i])))]

\* The numbered items "<digit>. text" of a section, in document order, number stripped.
NumberedOf(text, name) ==
    LET nl == SelectSeq(LinesOfSection(text, name),
                        LAMBDA l : Len(l) >= 3 /\ l[1] \in Digits /\ l[2] = DOT /\ l[3] = SP)
    IN [i \in 1..Len(nl) |-> Trim(SubSeq(nl[i], 4, Len(nl[i])))]

\* The lines that start with the given literal.
LinesStarting(text, prefix) == SelectSeq(SplitLines(text), LAMBDA l : StartsWith(l, prefix))

\* The lines that hold the given literal anywhere.
LinesHolding(text, literal) == SelectSeq(SplitLines(text), LAMBDA l : Holds(l, literal))

HasKeyedLine(text, key) == LinesStarting(text, <<HY, SP, key, CO, SP>>) # <<>>

\* The whole value of the first "- KEY: value" line: all text after the prefix, trimmed.
ValueOfKey(text, key) ==
    LET l == LinesStarting(text, <<HY, SP, key, CO, SP>>)[1] IN Trim(SubSeq(l, 6, Len(l)))

\* The text after "- <label>: " on the prompt's line of that label.
PromptLine(text, label) ==
    LET l == LinesStarting(text, <<HY, SP, label, CO, SP>>)[1] IN SubSeq(l, 6, Len(l))

Files3 == <<context_file, state_file, prompt_file>>

\* ------------------------------------------------------------------ claims

\* C1: update_prompt, run with both the Context and the State document present, never
\* aborts over a missing section or field: it ends normally with the Prompt written.
C1_PromptNeverAborts ==
    (last.cmd = "prompt" /\ context_file.exists /\ state_file.exists)
        => (last.result = "ok" /\ prompt_file.exists)

\* C2: update_state with reset=true ignores every other argument: the State document
\* it leaves is exactly the reset template, whatever else was passed.
C2_ResetIgnoresOtherArguments ==
    (last.cmd = "state" /\ last.result = "ok" /\ last.args.reset)
        => state_file.text = ResetTemplate

\* Of the lines of `before` that hold the literal, all but the first are found
\* unchanged, as the last such lines, in `after`.
LaterOccurrencesKept(before, after, literal) ==
    LET was == LinesHolding(before, literal)
        now == LinesHolding(after, literal)
    IN Len(was) >= 2 =>
         /\ Len(now) >= Len(was) - 1
         /\ SubSeq(now, Len(now) - Len(was) + 2, Len(now)) = Tail(was)

\* C3: the in-place replacements of update_state (the four keyed lines) and of
\* update_phase (the phase header, the progress value) rewrite only the first
\* occurrence of their pattern: with two or more matching lines in the document, every
\* occurrence after the first is the same after the call.
C3_OnlyFirstOccurrenceRewritten ==
    [][/\ (last'.cmd = "state" /\ last'.result = "ok" /\ ~last'.args.reset
              /\ last'.args.next # None)
          => /\ LaterOccurrencesKept(state_file.text, state_file'.text,
                                     <<HY, SP, "CURRENT TASK", CO, SP>>)
             /\ last'.args.criteria # None
                  => LaterOccurrencesKept(state_file.text, state_file'.text,
                                          <<HY, SP, "COMPLETION CRITERIA", CO, SP>>)
             /\ last'.args.files # None
                  => LaterOccurrencesKept(state_file.text, state_file'.text,
                                          <<HY, SP, "WORKING FILES", CO, SP>>)
             /\ last'.args.integration # None
                  => LaterOccurrencesKept(state_file.text, state_file'.text,
                                          <<HY, SP, "INTEGRATION POINTS", CO, SP>>)
       /\ (last'.cmd = "phase" /\ last'.result = "ok")
          => /\ last'.args.new # None
                  => LaterOccurrencesKept(context_file.text, context_file'.text,
                                          <<H2, SP, "Current Phase", CO, SP>>)
             /\ last'.args.progress # None
                  => LaterOccurrencesKept(context_file.text, context_file'.text,
                                          <<"Progress", CO, SP>>)
      ]_vars

\* C4: update_state with taskCompleted = X and no reset, on a State document whose
\* CURRENT TASK value is T and whose Completed section holds bullets B, leaves the
\* Completed section holding <<"T: X">> \o B: one new bullet first, T being the whole
\* value the document held before the call, the earlier bullets kept in order.
C4_CompletedPrepended ==
    [][(/\ last'.cmd = "state" /\ last'.result = "ok" /\ ~last'.args.reset
        /\ last'.args.completed # None
        /\ HasKeyedLine(state_file.text, "CURRENT TASK")
        /\ HasSection(state_file.text, "Completed"))
       => TopBullets(state_file'.text, "Completed")
            = <<ValueOfKey(state_file.text, "CURRENT TASK") \o <<CO, SP>>
                  \o last'.args.completed>>
              \o TopBullets(state_file.text, "Completed")
      ]_vars

\* The document cut into its sections: each from a line starting "##" (or the top of
\* the document) to before the next such line.
RECURSIVE SectionsFrom(_, _)
SectionsFrom(lines, current) ==
    IF lines = <<>> THEN <<current>>
    ELSE IF StartsWith(Head(lines), <<H2>>)
         THEN <<current>> \o SectionsFrom(Tail(lines), <<Head(lines)>>)
         ELSE SectionsFrom(Tail(lines), Append(current, Head(lines)))

SectionsOf(text) == SectionsFrom(SplitLines(text), <<>>)

OtherSections(text) ==
    SelectSeq(SectionsOf(text), LAMBDA x : x = <<>> \/ x[1] # <<H2, SP, "High Priority">>)

\* The keyed lines of the keys that a call with these arguments does not name.
UnnamedKeyedLines(text, args) ==
    SelectSeq(SplitLines(text),
              LAMBDA l : \/ args.criteria = None /\ StartsWith(l, <<HY, SP, "COMPLETION CRITERIA", CO, SP>>)
                         \/ args.files = None /\ StartsWith(l, <<HY, SP, "WORKING FILES", CO, SP>>)
                         \/ args.integration = None /\ StartsWith(l, <<HY, SP, "INTEGRATION POINTS", CO, SP>>))

\* C5: update_state with nextTask and no taskCompleted and no reset changes the CURRENT
\* TASK keyed line and the keyed lines of the criteria / files / integration it was
\* given, and nothing else: the keyed lines it was not given and every section other
\* than High Priority are the same after the call as before it.
C5_OnlyNamedKeyedLinesChange ==
    [][(/\ last'.cmd = "state" /\ last'.result = "ok" /\ ~last'.args.reset
        /\ last'.args.completed = None /\ last'.args.next # None)
       => /\ OtherSections(state_file'.text) = OtherSections(state_file.text)
          /\ UnnamedKeyedLines(state_file'.text, last'.args)
               = UnnamedKeyedLines(state_file.text, last'.args)
      ]_vars

\* C6: the confirmation gate of init: when at least one of the three files exists and
\* the answer is anything but y / Y, init ends canceled with all three files as they
\* were (existing ones unchanged, missing ones still missing); so the files change
\* only after an accepting answer or when none existed.
C6_ConfirmationGate ==
    [][(/\ last'.cmd = "init"
        /\ context_file.exists \/ state_file.exists \/ prompt_file.exists
        /\ last'.args.answer \notin {"y", "Y"})
       => (Files3' = Files3 /\ last'.result = "canceled")
      ]_vars

\* C6's case: an init declined with "yes" while the Prompt document was missing: the
\* Context document is still there and the Prompt document still is not.
C6_DeclinedWithMissingPrompt ==
    /\ last.cmd = "init" /\ last.result = "canceled" /\ last.args.answer = "yes"
    /\ context_file.exists /\ state_file.exists /\ ~prompt_file.exists

\* C7: a missing required document makes the operation end normally with no write:
\* update_prompt without the Context or the State document, update_state without the
\* State document, update_phase without the Context document leave all three files
\* (present or absent) as they were.
C7_MissingDocumentNoWrite ==
    [][/\ (last'.cmd = "prompt" /\ (~context_file.exists \/ ~state_file.exists))
          => (Files3' = Files3 /\ last'.result = "missing")
       /\ (last'.cmd = "state" /\ ~state_file.exists)
          => (Files3' = Files3 /\ last'.result = "missing")
       /\ (last'.cmd = "phase" /\ ~context_file.exists)
          => (Files3' = Files3 /\ last'.result = "missing")
      ]_vars

\* C7's case: update_prompt has run with the Context and Prompt documents present and
\* the State document missing.
C7_PromptWithoutState ==
    /\ last.cmd = "prompt" /\ last.result = "missing"
    /\ context_file.exists /\ ~state_file.exists /\ prompt_file = File(BasePrompt)

\* C8: update_prompt renders each keyed-line field (the task when no focus is given,
\* criteria, files, integration points) as the whole value of its "- KEY: value" line
\* of the State document, hyphens included.
C8_KeyedFieldsRenderedWhole ==
    (last.cmd = "prompt" /\ last.result = "ok")
    => /\ (last.args.focus = None /\ HasKeyedLine(state_file.text, "CURRENT TASK"))
          => PromptLine(prompt_file.text, "Task") = ValueOfKey(state_file.text, "CURRENT TASK")
       /\ HasKeyedLine(state_file.text, "COMPLETION CRITERIA")
          => PromptLine(prompt_file.text, "Completion criteria")
               = ValueOfKey(state_file.text, "COMPLETION CRITERIA")
       /\ HasKeyedLine(state_file.text, "WORKING FILES")
          => PromptLine(prompt_file.text, "Files") = ValueOfKey(state_file.text, "WORKING FILES")
       /\ HasKeyedLine(state_file.text, "INTEGRATION POINTS")
          => PromptLine(prompt_file.text, "Integration points")
               = ValueOfKey(state_file.text, "INTEGRATION POINTS")

\* The items joined by ", ".
RECURSIVE CommaJoined(_)
CommaJoined(items) ==
    IF Len(items) = 0 THEN <<>>
    ELSE IF Len(items) = 1 THEN Head(items)
    ELSE Head(items) \o <<COMMA, SP>> \o CommaJoined(Tail(items))

AtMost3(n) == IF n < 3 THEN n ELSE 3

\* C9: with n top-level bullets in Completed and m numbered items in Next Tasks, the
\* prompt's "Completed:" line is the last min(3, n) bullets in document order joined by
\* ", ", its "Next tasks:" line the first min(3, m) items, number stripped, joined by
\* ", "; no nested Files: / Integration: line shows in either.
C9_BoundedSummaries ==
    (last.cmd = "prompt" /\ last.result = "ok")
    => LET done == TopBullets(state_file.text, "Completed")
           todo == NumberedOf(state_file.text, "Next Tasks")
           n == Len(done)
           m == Len(todo)
           doneLine == PromptLine(prompt_file.text, "Completed")
           todoLine == PromptLine(prompt_file.text, "Next tasks")
       IN /\ doneLine = CommaJoined(SubSeq(done, n - AtMost3(n) + 1, n))
          /\ todoLine = CommaJoined(SubSeq(todo, 1, AtMost3(m)))
          /\ \A i \in 1..Len(doneLine) : doneLine[i] \notin {"Files", "Integration"}
          /\ \A i \in 1..Len(todoLine) : todoLine[i] \notin {"Files", "Integration"}

\* C9's case: a prompt rendered from a State document with more than three Completed
\* bullets and more than three Next Tasks items.
C9_PromptFromLongLists ==
    /\ last.cmd = "prompt" /\ last.result = "ok"
    /\ Len(TopBullets(state_file.text, "Completed")) > 3
    /\ Len(NumberedOf(state_file.text, "Next Tasks")) > 3

\* The keys of the keyed lines of the High Priority section, in document order.
HighPriorityKeys(text) ==
    LET kl == SelectSeq(LinesOfSection(text, "High Priority"),
                        LAMBDA l : \E k \in StateKeys : StartsWith(l, <<HY, SP, k, CO, SP>>))
    IN [i \in 1..Len(kl) |-> kl[i][3]]

\* C10: from an accepted init on, after any update_state / update_phase /
\* update_prompt calls, the State document's High Priority section holds the four
\* keyed lines, each exactly once and in the order CURRENT TASK, COMPLETION CRITERIA,
\* WORKING FILES, INTEGRATION POINTS.
C10_FourKeyedLinesOnceInOrder ==
    state_file.exists
    => HighPriorityKeys(state_file.text)
         = <<"CURRENT TASK", "COMPLETION CRITERIA", "WORKING FILES", "INTEGRATION POINTS">>

\* The calls the idempotence is stated for: update_state with reset, update_state with
\* a next task and no completed task, every update_phase, every update_prompt.
IdempotentCall(c) ==
    \/ c.cmd = "state" /\ (c.args.reset \/ (c.args.next # None /\ c.args.completed = None))
    \/ c.cmd = "phase"
    \/ c.cmd = "prompt"

\* The same operation with the same arguments, run right after itself.
RepeatedCall == IdempotentCall(last) /\ last'.cmd = last.cmd /\ last'.args = last.args

\* C11: idempotence.  When update_state with reset, update_state with a next task (and
\* optionally criteria, files, integration) and no completed task, update_phase, or
\* update_prompt is run a second time in a row with the same arguments, the second run
\* leaves all three documents byte-identical to what the first run left.
C11_SecondRunChangesNothing == [][RepeatedCall => Files3' = Files3]_vars

====
